---- MODULE Spec2Model ----
(***************************************************************************)
(* Settlement of task submissions (src/pages/api/tasks/submit.ts) and the  *)
(* official task ingestion (src/pages/api/tasks/official.ts) over one      *)
(* PostgreSQL database.                                                    *)
(*                                                                         *)
(* The committed database is the variables tasks, submissions and points.  *)
(* A handler invocation runs in a connection slot p: its statements are    *)
(* separate steps, its uncommitted writes are collected in tx[p] and       *)
(* reach the committed database at COMMIT only; ROLLBACK discards them.    *)
(* Row locks (SELECT ... FOR UPDATE on the task row, UPDATE on the user    *)
(* row) are held until COMMIT or ROLLBACK.                                 *)
(***************************************************************************)
EXTENDS Integers, Sequences, FiniteSets, Bags, TLC

\* ----------------------------------------------------------------- bounds
\* concurrent handler invocations (pool connections)
NProcs == 2
\* rows of the users table, ids 1..NUsers
NUsers == 3
\* rows the tasks table may hold
MaxTaskId == 3
\* submit requests issued in one behaviour
MaxRequests == 3
\* the clock runs 0..MaxTime
MaxTime == 2
\* initial escrow_balance of task 1
MaxEscrow == 3
\* longest string the validation is run on
MaxLen == 3
\* submit requests issued in one behaviour under fair scheduling
MaxFairRequests == 2

Procs == 1..NProcs
Users == 1..NUsers

\* SQL NULL / JS null in an id or timestamp column
Null == -1
\* no authenticated user (getUserIdFromAuthHeader returned null)
NoUser == 0
\* request body without task_id
NoTaskId == 0

\* ---------------------------------------------------------------- strings
\* A string is a sequence of one-character strings.
Whitespace == {" "}

RECURSIVE TrimStart(_)
TrimStart(s) ==
    IF s # <<>> /\ Head(s) \in Whitespace THEN TrimStart(Tail(s)) ELSE s

RECURSIVE TrimEnd(_)
TrimEnd(s) ==
    IF s # <<>> /\ s[Len(s)] \in Whitespace
    THEN TrimEnd(SubSeq(s, 1, Len(s) - 1))
    ELSE s

\* String.prototype.trim
Trim(s) == TrimEnd(TrimStart(s))

LowerChar(c) ==
    CASE c = "A" -> "a"
      [] c = "B" -> "b"
      [] c = "C" -> "c"
      [] OTHER -> c

\* String.prototype.toLowerCase
ToLowerCase(s) == [i \in 1..Len(s) |-> LowerChar(s[i])]

\* the validation with the case folded for every question type
ValidateFoldsAll(question_type, answer, correct_answer) ==
    ToLowerCase(Trim(answer)) = ToLowerCase(Trim(correct_answer))

\* submit.ts 68-76: the validation of an answer against the task
Validate(question_type, answer, correct_answer) ==
    IF question_type = "mcq"
    THEN Trim(answer) = Trim(correct_answer)
    ELSE ToLowerCase(Trim(answer)) = ToLowerCase(Trim(correct_answer))

\* answers a request body may carry
Answers == { <<" ", "B">>, <<"c">> }

\* ------------------------------------------------------------------ state
VARIABLES
    tasks,        \* committed tasks table: a sequence of rows, id = index
    submissions,  \* committed submissions table: a bag of rows
    points,       \* committed users.points, by user id
    now,          \* the clock (new Date(), now())
    pc,           \* where each handler invocation stands
    req,          \* its request: [user, task_id, answer]
    task,         \* the task row it read under FOR UPDATE (submit.ts 39)
    tx,           \* its uncommitted writes
    res,          \* the response it is about to send
    taskLock,     \* holder of the row lock of each task, 0 if free
    userLock,     \* holder of the row lock of each user, 0 if free
    nreq,         \* transactions begun so far
    \* history, read by no action:
    rejectedAS,   \* the <<task, user>> pairs that were answered AlreadySubmitted
    resub,        \* the request was issued after such an answer to its pair
    aborted       \* a transaction that had written was ended by a storage error

vars == <<tasks, submissions, points, now, pc, req, task, tx, res,
          taskLock, userLock, nreq, rejectedAS, resub, aborted>>

hist == <<rejectedAS, resub, aborted>>

db == <<tasks, submissions, points>>

NoReq == [user |-> NoUser, task_id |-> NoTaskId, answer |-> <<>>]
NoRow == [creator_id |-> Null, question_type |-> "", correct_answer |-> <<>>,
          reward_per_completion |-> 0, max_acceptances |-> 0,
          escrow_balance |-> 0, status |-> "", starts_at |-> Null,
          ends_at |-> Null]
\* debit, credit: the amounts of the UPDATEs; points: the value the UPDATE
\* of the user row wrote (Null: the row was not written)
NoTx == [debit |-> 0, subs |-> <<>>, credit |-> 0, points |-> Null,
         close |-> FALSE]
NoRes == [kind |-> "none", is_correct |-> FALSE, awarded_points |-> 0]

\* an error response
Resp(kind) == [kind |-> kind, is_correct |-> FALSE, awarded_points |-> 0]

\* 112, 121: the response of a settled submit
Success(is_correct, awarded_points) ==
    [kind |-> "success", is_correct |-> is_correct,
     awarded_points |-> awarded_points]

\* The tasks a creation collaborator left in the table: task 1 is a user's
\* mcq task without a time window, task 2 a user's short-answer task that
\* is open at time 1 only.
InitTasks(escrow) ==
    << [creator_id |-> 1, question_type |-> "mcq", correct_answer |-> <<"B">>,
        reward_per_completion |-> 2, max_acceptances |-> 2,
        escrow_balance |-> escrow, status |-> "open",
        starts_at |-> Null, ends_at |-> Null],
       [creator_id |-> 2, question_type |-> "short", correct_answer |-> <<"b">>,
        reward_per_completion |-> 1, max_acceptances |-> 1,
        escrow_balance |-> 1, status |-> "open",
        starts_at |-> 1, ends_at |-> 1] >>

Init ==
    /\ tasks = InitTasks(MaxEscrow)
    /\ submissions = EmptyBag
    /\ points = [u \in Users |-> 0]
    /\ now = 0
    /\ pc = [p \in Procs |-> "idle"]
    /\ req = [p \in Procs |-> NoReq]
    /\ task = [p \in Procs |-> NoRow]
    /\ tx = [p \in Procs |-> NoTx]
    /\ res = [p \in Procs |-> NoRes]
    /\ taskLock = [t \in 1..MaxTaskId |-> 0]
    /\ userLock = [u \in Users |-> 0]
    /\ nreq = 0
    /\ rejectedAS = {}
    /\ resub = [p \in Procs |-> FALSE]
    /\ aborted = FALSE

\* ------------------------------------------------------------ the queries
TaskExists(tbl, t) == t \in 1..Len(tbl)

\* SELECT * FROM submissions WHERE task_id = $1 AND user_id = $2  (62)
SubsOf(subs, t, u) ==
    {r \in BagToSet(subs) : r.task_id = t /\ r.user_id = u}

\* rows of a bag that satisfy a predicate, counted with multiplicity
RECURSIVE SumCopies(_, _)
SumCopies(B, S) ==
    IF S = {} THEN 0
    ELSE LET r == CHOOSE x \in S : TRUE
         IN CopiesIn(r, B) + SumCopies(B, S \ {r})

\* SELECT COUNT(*) FROM submissions WHERE task_id = $1 AND is_correct (105)
CorrectCount(subs, t) ==
    SumCopies(subs, {r \in BagToSet(subs) : r.task_id = t /\ r.is_correct})

\* rows of a transaction's own inserts that the count of line 105 sees
OwnCorrect(w, t) ==
    Cardinality({i \in 1..Len(w.subs) :
                    w.subs[i].task_id = t /\ w.subs[i].is_correct})

RECURSIVE SeqToBag(_)
SeqToBag(s) ==
    IF s = <<>> THEN EmptyBag ELSE SetToBag({Head(s)}) (+) SeqToBag(Tail(s))

\* ------------------------------------------------- submit.ts: the handler
\* Precheck without the look for an earlier submission
PrecheckNoDuplicate(row, user, time, existing) ==
    IF row.status # "open" THEN "TaskClosed"
    ELSE IF row.starts_at # Null /\ row.starts_at > time THEN "NotStarted"
    ELSE IF row.ends_at # Null /\ row.ends_at < time THEN "Expired"
    ELSE IF row.creator_id # Null /\ row.creator_id = user THEN "SelfSubmission"
    ELSE "ok"

\* Precheck without the creator check
PrecheckNoSelf(row, user, time, existing) ==
    IF row.status # "open" THEN "TaskClosed"
    ELSE IF row.starts_at # Null /\ row.starts_at > time THEN "NotStarted"
    ELSE IF row.ends_at # Null /\ row.ends_at < time THEN "Expired"
    ELSE IF existing # {} THEN "AlreadySubmitted"
    ELSE "ok"

\* Precheck with the comparison of starts_at turned round
PrecheckLateStart(row, user, time, existing) ==
    IF row.status # "open" THEN "TaskClosed"
    ELSE IF row.starts_at # Null /\ row.starts_at < time THEN "NotStarted"
    ELSE IF row.ends_at # Null /\ row.ends_at < time THEN "Expired"
    ELSE IF row.creator_id # Null /\ row.creator_id = user THEN "SelfSubmission"
    ELSE IF existing # {} THEN "AlreadySubmitted"
    ELSE "ok"

\* Precheck without the look at the status
PrecheckNoStatus(row, user, time, existing) ==
    IF row.starts_at # Null /\ row.starts_at > time THEN "NotStarted"
    ELSE IF row.ends_at # Null /\ row.ends_at < time THEN "Expired"
    ELSE IF row.creator_id # Null /\ row.creator_id = user THEN "SelfSubmission"
    ELSE IF existing # {} THEN "AlreadySubmitted"
    ELSE "ok"

\* Precheck with a submit at ends_at itself taken as too late
PrecheckExclusiveEnd(row, user, time, existing) ==
    IF row.status # "open" THEN "TaskClosed"
    ELSE IF row.starts_at # Null /\ row.starts_at > time THEN "NotStarted"
    ELSE IF row.ends_at # Null /\ row.ends_at <= time THEN "Expired"
    ELSE IF row.creator_id # Null /\ row.creator_id = user THEN "SelfSubmission"
    ELSE IF existing # {} THEN "AlreadySubmitted"
    ELSE "ok"

\* 41-66: the checks on the locked task row, in the order of the code;
\* "ok" when none rejects.
Precheck(row, user, time, existing) ==
    IF row.status # "open" THEN "TaskClosed"
    ELSE IF row.starts_at # Null /\ row.starts_at > time THEN "NotStarted"
    ELSE IF row.ends_at # Null /\ row.ends_at < time THEN "Expired"
    ELSE IF row.creator_id # Null /\ row.creator_id = user THEN "SelfSubmission"
    ELSE IF existing # {} THEN "AlreadySubmitted"
    ELSE "ok"

\* the escrow compared with zero instead of the reward
InsufficientBelowZero(escrowBalance, reward) == escrowBalance < 0

\* the escrow must exceed the reward
InsufficientInclusive(escrowBalance, reward) == escrowBalance <= reward

\* 82: the escrow cannot pay the reward
Insufficient(escrowBalance, reward) == escrowBalance < reward

\* closes one acceptance late
ExhaustedStrict(correctCount, max_acceptances) == correctCount > max_acceptances

\* 107: the acceptances are used up
Exhausted(correctCount, max_acceptances) == correctCount >= max_acceptances

\* 94-98: the row of a correct submission
CorrectRow(t, u, answer, reward) ==
    [task_id |-> t, user_id |-> u, answer |-> answer,
     is_correct |-> TRUE, awarded_points |-> reward]

\* the row of an incorrect submission stored as a correct one
IncorrectRowMarkedCorrect(t, u, answer) ==
    [task_id |-> t, user_id |-> u, answer |-> answer,
     is_correct |-> TRUE, awarded_points |-> 0]

\* 115-119: the row of an incorrect submission
IncorrectRow(t, u, answer) ==
    [task_id |-> t, user_id |-> u, answer |-> answer,
     is_correct |-> FALSE, awarded_points |-> 0]

\* the debit of line 91 lost
TaskAfterNoDebit(row, w) ==
    [row EXCEPT !.status = IF w.close THEN "closed" ELSE @]

\* The committed task row once a transaction's writes to it are applied.
TaskAfter(row, w) ==
    [row EXCEPT !.escrow_balance = @ - w.debit,
                !.status = IF w.close THEN "closed" ELSE @]

\* 29: pool.connect() hands out a free connection; the connections are
\* interchangeable and the first free one is taken
FreeSlot(where) ==
    IF \E q \in Procs : where[q] = "idle"
    THEN CHOOSE q \in Procs :
            where[q] = "idle" /\ \A r \in Procs : where[r] = "idle" => q <= r
    ELSE 0

\* 19-31: the request is taken, the user resolved, the body checked, a
\* connection taken and BEGIN sent.
Begin(p, u, t, a) ==
    /\ pc[p] = "idle"
    /\ p = FreeSlot(pc)
    /\ nreq < MaxRequests
    /\ IF u = NoUser \/ t = NoTaskId
       THEN \* 22, 25-27: 401 or 400 is sent, no connection is taken
            UNCHANGED <<pc, req, nreq, resub>>
       ELSE /\ req' = [req EXCEPT ![p] =
                        [user |-> u, task_id |-> t, answer |-> a]]
            /\ pc' = [pc EXCEPT ![p] = "begin"]
            /\ nreq' = nreq + 1
            /\ resub' = [resub EXCEPT ![p] = <<t, u>> \in rejectedAS]
    /\ UNCHANGED <<tasks, submissions, points, now, task, tx, res,
                   taskLock, userLock, rejectedAS, aborted>>

\* the SELECT of line 34 without FOR UPDATE: it reads the row and waits
\* for nobody
LockTaskNoWait(p) ==
    /\ pc[p] = "begin"
    /\ LET t == req[p].task_id IN
       IF ~TaskExists(tasks, t)
       THEN /\ pc' = [pc EXCEPT ![p] = "rollback"]
            /\ res' = [res EXCEPT ![p] = Resp("NotFound")]
            /\ UNCHANGED <<task, taskLock>>
       ELSE /\ taskLock' = [taskLock EXCEPT ![t] = p]
            /\ task' = [task EXCEPT ![p] = tasks[t]]
            /\ pc' = [pc EXCEPT ![p] = "locked"]
            /\ UNCHANGED res
    /\ UNCHANGED <<tasks, submissions, points, now, req, tx, userLock, nreq,
                   hist>>

\* 34-39: SELECT ... FOR UPDATE waits for the row lock and reads the row
\* as committed then; without a row there is nothing to lock.
LockTask(p) ==
    /\ pc[p] = "begin"
    /\ LET t == req[p].task_id IN
       IF ~TaskExists(tasks, t)
       THEN /\ pc' = [pc EXCEPT ![p] = "rollback"]
            /\ res' = [res EXCEPT ![p] = Resp("NotFound")]
            /\ UNCHANGED <<task, taskLock>>
       ELSE /\ taskLock[t] = 0
            /\ taskLock' = [taskLock EXCEPT ![t] = p]
            /\ task' = [task EXCEPT ![p] = tasks[t]]
            /\ pc' = [pc EXCEPT ![p] = "locked"]
            /\ UNCHANGED res
    /\ UNCHANGED <<tasks, submissions, points, now, req, tx, userLock, nreq,
                   hist>>

\* 41-88: the eligibility checks, the validation and the choice of branch
Check(p) ==
    /\ pc[p] = "locked"
    /\ LET row == task[p]
           t == req[p].task_id
           u == req[p].user
           k == Precheck(row, u, now, SubsOf(submissions, t, u))
           is_correct == Validate(row.question_type, req[p].answer,
                                  row.correct_answer)
       IN IF k # "ok"
          THEN /\ pc' = [pc EXCEPT ![p] = "rollback"]
               /\ res' = [res EXCEPT ![p] = Resp(k)]
          ELSE /\ pc' = [pc EXCEPT ![p] =
                    IF ~is_correct THEN "insert_wrong"
                    ELSE IF Insufficient(row.escrow_balance,
                                         row.reward_per_completion)
                         THEN "insufficient"
                         ELSE "debit"]
               /\ UNCHANGED res
    /\ UNCHANGED <<tasks, submissions, points, now, req, task, tx,
                   taskLock, userLock, nreq, hist>>

\* 85-87: UPDATE tasks SET status='closed', inside the transaction, and
\* then the ROLLBACK of that transaction
CloseInsufficient(p) ==
    /\ pc[p] = "insufficient"
    /\ tx' = [tx EXCEPT ![p].close = TRUE]
    /\ res' = [res EXCEPT ![p] = Resp("InsufficientEscrow")]
    /\ pc' = [pc EXCEPT ![p] = "rollback"]
    /\ UNCHANGED <<tasks, submissions, points, now, req, task,
                   taskLock, userLock, nreq, hist>>

\* 91: UPDATE tasks SET escrow_balance = escrow_balance - reward
Debit(p) ==
    /\ pc[p] = "debit"
    /\ tx' = [tx EXCEPT ![p].debit = @ + task[p].reward_per_completion]
    /\ pc' = [pc EXCEPT ![p] = "insert"]
    /\ UNCHANGED <<tasks, submissions, points, now, req, task, res,
                   taskLock, userLock, nreq, hist>>

\* 94-98: INSERT INTO submissions (..., true, reward, now())
InsertCorrect(p) ==
    /\ pc[p] = "insert"
    /\ tx' = [tx EXCEPT ![p].subs =
                Append(@, CorrectRow(req[p].task_id, req[p].user,
                                     req[p].answer,
                                     task[p].reward_per_completion))]
    /\ pc' = [pc EXCEPT ![p] = "credit"]
    /\ UNCHANGED <<tasks, submissions, points, now, req, task, res,
                   taskLock, userLock, nreq, hist>>

\* the credit as a read and a write of the row with no lock between them
CreditNoLock(p) ==
    /\ pc[p] = "credit"
    /\ userLock' = [userLock EXCEPT ![req[p].user] = p]
    /\ tx' = [tx EXCEPT ![p].credit = @ + task[p].reward_per_completion,
                        ![p].points = points[req[p].user]
                                        + task[p].reward_per_completion]
    /\ pc' = [pc EXCEPT ![p] = "count"]
    /\ UNCHANGED <<tasks, submissions, points, now, req, task, res,
                   taskLock, nreq, hist>>

\* 101: UPDATE users SET points = points + reward; waits for the row lock
\* of the user, computes the new value from the row as committed then and
\* holds the lock to the end of the transaction
Credit(p) ==
    /\ pc[p] = "credit"
    /\ userLock[req[p].user] \in {0, p}
    /\ userLock' = [userLock EXCEPT ![req[p].user] = p]
    /\ tx' = [tx EXCEPT ![p].credit = @ + task[p].reward_per_completion,
                        ![p].points = points[req[p].user]
                                        + task[p].reward_per_completion]
    /\ pc' = [pc EXCEPT ![p] = "count"]
    /\ UNCHANGED <<tasks, submissions, points, now, req, task, res,
                   taskLock, nreq, hist>>

\* 105-109: count the correct submissions, the one just inserted included,
\* and close the task when max_acceptances is reached
CountClose(p) ==
    /\ pc[p] = "count"
    /\ LET t == req[p].task_id
           correctCount == CorrectCount(submissions, t) + OwnCorrect(tx[p], t)
       IN tx' = [tx EXCEPT ![p].close =
                    @ \/ Exhausted(correctCount, task[p].max_acceptances)]
    /\ res' = [res EXCEPT ![p] = Success(TRUE, task[p].reward_per_completion)]
    /\ pc' = [pc EXCEPT ![p] = "commit"]
    /\ UNCHANGED <<tasks, submissions, points, now, req, task,
                   taskLock, userLock, nreq, hist>>

\* 115-119: INSERT INTO submissions (..., false, 0, now())
InsertIncorrect(p) ==
    /\ pc[p] = "insert_wrong"
    /\ tx' = [tx EXCEPT ![p].subs =
                Append(@, IncorrectRow(req[p].task_id, req[p].user,
                                       req[p].answer))]
    /\ res' = [res EXCEPT ![p] = Success(FALSE, 0)]
    /\ pc' = [pc EXCEPT ![p] = "commit"]
    /\ UNCHANGED <<tasks, submissions, points, now, req, task,
                   taskLock, userLock, nreq, hist>>

\* the end of a transaction that leaves its row locks behind
ReleaseNothing(locks, p) == locks

\* COMMIT and ROLLBACK free the row locks of the transaction
Release(locks, p) == [x \in DOMAIN locks |-> IF locks[x] = p THEN 0 ELSE locks[x]]

\* 112, 121, 128 and every early return: the response is sent, the
\* transaction is over, its locks are free, the connection is released
Finish(p) ==
    /\ tx' = [tx EXCEPT ![p] = NoTx]
    /\ taskLock' = Release(taskLock, p)
    /\ userLock' = Release(userLock, p)
    /\ task' = [task EXCEPT ![p] = NoRow]
    /\ req' = [req EXCEPT ![p] = NoReq]
    /\ res' = [res EXCEPT ![p] = NoRes]
    /\ pc' = [pc EXCEPT ![p] = "idle"]
    /\ resub' = [resub EXCEPT ![p] = FALSE]

\* 111-112, 120-121: COMMIT makes the writes of the transaction visible,
\* frees its locks, and the result is sent
Commit(p) ==
    /\ pc[p] = "commit"
    /\ LET t == req[p].task_id
           u == req[p].user
           w == tx[p]
       IN /\ tasks' = [tasks EXCEPT ![t] = TaskAfter(@, w)]
          /\ submissions' = submissions (+) SeqToBag(w.subs)
          /\ points' = IF w.points = Null THEN points
                        ELSE [points EXCEPT ![u] = w.points]
    /\ Finish(p)
    /\ UNCHANGED <<now, nreq, rejectedAS, aborted>>

\* 36, 42, 48, 52, 57, 64, 86, 124: ROLLBACK drops the writes of the
\* transaction and frees its locks; the response is sent
Rollback(p) ==
    /\ pc[p] = "rollback"
    /\ Finish(p)
    /\ rejectedAS' = IF res[p].kind = "AlreadySubmitted"
                     THEN rejectedAS \cup {<<req[p].task_id, req[p].user>>}
                     ELSE rejectedAS
    /\ UNCHANGED <<tasks, submissions, points, now, nreq, aborted>>

\* 123-128: a statement of the unit of work throws (storage error); the
\* catch block rolls back and answers 500. Nothing of the transaction is
\* visible to the others between the throw and the ROLLBACK, so both are
\* one step.
InTxn == {"begin", "locked", "insufficient", "debit", "insert", "credit",
          "count", "insert_wrong", "commit"}

\* the rollback of the catch block leaves the debit behind
FailKeepsDebit(p) ==
    /\ pc[p] \in InTxn
    /\ Finish(p)
    /\ aborted' = (aborted \/ tx[p] # NoTx)
    /\ tasks' = IF TaskExists(tasks, req[p].task_id)
                THEN [tasks EXCEPT ![req[p].task_id].escrow_balance =
                                      @ - tx[p].debit]
                ELSE tasks
    /\ UNCHANGED <<submissions, points, now, nreq, rejectedAS>>

Fail(p) ==
    /\ pc[p] \in InTxn
    /\ Finish(p)
    /\ aborted' = (aborted \/ tx[p] # NoTx)
    /\ UNCHANGED <<tasks, submissions, points, now, nreq, rejectedAS>>

\* --------------------------------------------- official.ts: the ingestion
\* what an accepted request body may carry (17-26)
Bodies ==
    { [question_type |-> "mcq", correct_answer |-> <<"B">>,
       reward_per_completion |-> 0, max_acceptances |-> 0,
       starts_at |-> Null, ends_at |-> Null],
      [question_type |-> "mcq", correct_answer |-> <<"B">>,
       reward_per_completion |-> 1, max_acceptances |-> 1,
       starts_at |-> Null, ends_at |-> Null] }

\* an id that is already taken
NewTaskIdReused(tbl) == Len(tbl)

\* 35-40: the id the INSERT ... RETURNING id gives the new row
NewTaskId(tbl) == Len(tbl) + 1

\* the inserted row with escrow for one reward
OfficialRowFunded(body) ==
    [creator_id |-> Null, question_type |-> body.question_type,
     correct_answer |-> body.correct_answer,
     reward_per_completion |-> body.reward_per_completion,
     max_acceptances |-> body.max_acceptances,
     escrow_balance |-> body.reward_per_completion, status |-> "open",
     starts_at |-> body.starts_at, ends_at |-> body.ends_at]

\* 35-51: the inserted row
OfficialRow(body) ==
    [creator_id |-> Null, question_type |-> body.question_type,
     correct_answer |-> body.correct_answer,
     reward_per_completion |-> body.reward_per_completion,
     max_acceptances |-> body.max_acceptances,
     escrow_balance |-> 0, status |-> "open",
     starts_at |-> body.starts_at, ends_at |-> body.ends_at]

\* the table with the row r stored under id
PutTask(tbl, id, r) ==
    IF id = Len(tbl) + 1 THEN Append(tbl, r) ELSE [tbl EXCEPT ![id] = r]

\* 6-53: an accepted ingestion request (one autocommitted INSERT)
Ingest(body) ==
    /\ NewTaskId(tasks) <= MaxTaskId
    /\ tasks' = PutTask(tasks, NewTaskId(tasks), OfficialRow(body))
    /\ UNCHANGED <<submissions, points, now, pc, req, task, tx, res,
                   taskLock, userLock, nreq, hist>>

\* the clock advances
Tick ==
    /\ now < MaxTime
    /\ now' = now + 1
    /\ UNCHANGED <<tasks, submissions, points, pc, req, task, tx, res,
                   taskLock, userLock, nreq, hist>>

Next ==
    \/ \E p \in Procs, u \in Users \cup {NoUser}, t \in 0..MaxTaskId,
          a \in Answers : Begin(p, u, t, a)
    \/ \E p \in Procs : LockTask(p)
    \/ \E p \in Procs : Check(p)
    \/ \E p \in Procs : CloseInsufficient(p)
    \/ \E p \in Procs : Debit(p)
    \/ \E p \in Procs : InsertCorrect(p)
    \/ \E p \in Procs : Credit(p)
    \/ \E p \in Procs : CountClose(p)
    \/ \E p \in Procs : InsertIncorrect(p)
    \/ \E p \in Procs : Commit(p)
    \/ \E p \in Procs : Rollback(p)
    \/ \E p \in Procs : Fail(p)
    \/ \E body \in Bodies : Ingest(body)
    \/ Tick

Spec == Init /\ [][Next]_vars

\* The statements of a handler invocation: each await resumes once the
\* database has answered, and the database answers a statement that waits
\* for no lock. Storage errors, new requests, ingestion and the clock may
\* or may not happen.
Step(p) ==
    \/ LockTask(p)
    \/ Check(p)
    \/ CloseInsufficient(p)
    \/ Debit(p)
    \/ InsertCorrect(p)
    \/ Credit(p)
    \/ CountClose(p)
    \/ InsertIncorrect(p)
    \/ Commit(p)
    \/ Rollback(p)

\* the submits of up to MaxFairRequests requests to the two initial tasks
NextFair ==
    \/ \E p \in Procs, u \in Users, t \in 1..MaxTaskId, a \in Answers :
          nreq < MaxFairRequests /\ Begin(p, u, t, a)
    \/ \E p \in Procs : Step(p)
    \/ \E p \in Procs : Fail(p)
    \/ Tick

FairSpec == Init /\ [][NextFair]_vars /\ \A p \in Procs : WF_vars(Step(p))

\* ------------------------------------------- the validation on its own
\* The strings of up to MaxLen characters over a space and one letter in
\* both cases, as answer of a request and as correct_answer of the task.
Alphabet == {" ", "B", "b"}

Strings == UNION {[1..n -> Alphabet] : n \in 0..MaxLen}

\* one open, funded task of either question type with any correct_answer
InitValidate ==
    /\ \E qt \in {"mcq", "short"}, c \in Strings :
          tasks = << [creator_id |-> Null, question_type |-> qt,
                      correct_answer |-> c, reward_per_completion |-> 1,
                      max_acceptances |-> 1, escrow_balance |-> 1,
                      status |-> "open", starts_at |-> Null,
                      ends_at |-> Null] >>
    /\ submissions = EmptyBag
    /\ points = [u \in Users |-> 0]
    /\ now = 0
    /\ pc = [p \in Procs |-> "idle"]
    /\ req = [p \in Procs |-> NoReq]
    /\ task = [p \in Procs |-> NoRow]
    /\ tx = [p \in Procs |-> NoTx]
    /\ res = [p \in Procs |-> NoRes]
    /\ taskLock = [t \in 1..MaxTaskId |-> 0]
    /\ userLock = [u \in Users |-> 0]
    /\ nreq = 0
    /\ rejectedAS = {}
    /\ resub = [p \in Procs |-> FALSE]
    /\ aborted = FALSE

\* one submit with any answer runs up to the branch on is_correct (76)
NextValidate ==
    \/ \E p \in Procs, a \in Strings : nreq = 0 /\ Begin(p, 1, 1, a)
    \/ \E p \in Procs : LockTask(p)
    \/ \E p \in Procs : Check(p)

SpecValidate == InitValidate /\ [][NextValidate]_vars

\* ------------------------------------------------------------- properties
TaskIds == 1..Len(tasks)

Count(t) == CorrectCount(submissions, t)

\* copies of rows for the pair <<t, u>> in the committed table
RowsOf(t, u) == SumCopies(submissions, SubsOf(submissions, t, u))

\* the six eligibility rejections
Eligibility == {"NotFound", "TaskClosed", "NotStarted", "Expired",
                "SelfSubmission", "AlreadySubmitted"}

\* the escrow a task was created with
InitialEscrow(t) ==
    IF t <= Len(InitTasks(MaxEscrow))
    THEN InitTasks(MaxEscrow)[t].escrow_balance
    ELSE 0

\* C1: whatever submits were committed, rejected or failed, and however
\* they interleaved, the escrow_balance of every task (all of which start
\* with non-negative escrow and reward) is >= 0.
C1_EscrowNeverNegative ==
    \A t \in TaskIds :
        tasks[t].reward_per_completion >= 0 => tasks[t].escrow_balance >= 0

\* a correct submit finds an escrow, already debited, that cannot pay again
C1_Witness ==
    \E p \in Procs :
        /\ pc[p] = "insufficient"
        /\ Count(req[p].task_id) >= 1
        /\ tasks[req[p].task_id].escrow_balance
              < tasks[req[p].task_id].reward_per_completion
        /\ tasks[req[p].task_id].escrow_balance
              < InitialEscrow(req[p].task_id)

\* C2: the committed table holds at most one Submission per (task, user),
\* also when one user has several submits to one task in flight.
C2_OneSubmissionPerPair ==
    \A t \in TaskIds : \A u \in Users : RowsOf(t, u) <= 1

\* a pair has its row, a second submit of the user is being turned away and
\* a third one of the same user waits for the task lock
C2_Witness ==
    \E p \in Procs, q \in Procs :
        /\ p # q
        /\ pc[p] = "rollback" /\ res[p].kind = "AlreadySubmitted"
        /\ pc[q] = "begin"
        /\ req[q].user = req[p].user /\ req[q].task_id = req[p].task_id
        /\ RowsOf(req[p].task_id, req[p].user) = 1

\* C3: a Submission that becomes committed with is_correct = true carries
\* awarded_points equal to the task's reward_per_completion and its commit
\* lowers the task's escrow_balance by exactly that amount; one with
\* is_correct = false carries awarded_points = 0.
C3_AwardIsRewardAndDebit ==
    [][\A r \in BagToSet(submissions') :
          CopiesIn(r, submissions') > CopiesIn(r, submissions) =>
              IF r.is_correct
              THEN /\ r.awarded_points = tasks[r.task_id].reward_per_completion
                   /\ tasks'[r.task_id].escrow_balance =
                          tasks[r.task_id].escrow_balance - r.awarded_points
              ELSE r.awarded_points = 0]_vars

\* an award of a positive reward is committed and the escrow shows it
C3_Witness ==
    \E r \in BagToSet(submissions) :
        /\ r.is_correct /\ r.awarded_points > 0
        /\ tasks[r.task_id].escrow_balance =
              InitialEscrow(r.task_id) - r.awarded_points

\* C4: for every task the number of committed correct Submissions never
\* exceeds its max_acceptances.
C4_CountWithinMaxAcceptances ==
    \A t \in TaskIds : Count(t) <= tasks[t].max_acceptances

\* rewards the initial escrow of a task covers
Covered(t) == InitialEscrow(t) \div tasks[t].reward_per_completion

\* C5: for a task with reward > 0 whose escrow covers exactly K rewards and
\* whose max_acceptances is at least K: never more than K correct
\* submissions are awarded, a correct submission is turned away
\* (InsufficientEscrow, or TaskClosed at the boundary) only once K awards
\* are committed, and the escrow stays >= 0 -- in every interleaving.
C5_ExactlyKAwards ==
    \A t \in TaskIds :
        (tasks[t].reward_per_completion > 0
            /\ tasks[t].max_acceptances >= Covered(t)) =>
          /\ Count(t) <= Covered(t)
          /\ tasks[t].escrow_balance >= 0
          /\ \A p \in Procs :
                (pc[p] = "rollback" /\ req[p].task_id = t
                   /\ res[p].kind \in {"InsufficientEscrow", "TaskClosed"})
                => Count(t) = Covered(t)

\* two users have correct answers for one task in flight, the escrow pays
\* one of them: the first is about to commit its award, the second waits
\* for the task lock
C5_Witness ==
    \E p \in Procs, q \in Procs :
        LET t == req[p].task_id IN
        /\ p # q /\ req[q].task_id = t /\ req[p].user # req[q].user
        /\ pc[p] = "commit" /\ tx[p].debit > 0
        /\ pc[q] = "begin"
        /\ Validate(tasks[t].question_type, req[q].answer,
                    tasks[t].correct_answer)
        /\ tasks[t].creator_id # req[q].user
        /\ SubsOf(submissions, t, req[q].user) = {}
        /\ Covered(t) = 1
        /\ tasks[t].max_acceptances >= 1

\* C6: a submit answered InsufficientEscrow records no Submission, debits
\* no escrow, credits no points and leaves the task closed in the
\* committed state.
C6_InsufficientEscrowClosesTask ==
    [][\A p \in Procs :
          (pc[p] = "rollback" /\ res[p].kind = "InsufficientEscrow"
             /\ pc'[p] = "idle") =>
            /\ submissions' = submissions
            /\ points' = points
            /\ tasks'[req[p].task_id].escrow_balance =
                  tasks[req[p].task_id].escrow_balance
            /\ tasks'[req[p].task_id].status = "closed"]_vars

C8_ClosureIsOneWay ==
    [][\A t \in TaskIds :
          tasks[t].status = "closed" => tasks'[t].status = "closed"]_vars

\* a submit has met a closed task
C8_Witness ==
    \E p \in Procs :
        /\ pc[p] = "rollback" /\ res[p].kind = "TaskClosed"
        /\ tasks[req[p].task_id].status = "closed"

\* C9 (as claimed): a submit of u to t issued after u was answered
\* AlreadySubmitted for t is answered AlreadySubmitted again.
C9_AlwaysAlreadySubmitted ==
    \A p \in Procs :
        resub[p] =>
          /\ pc[p] \in {"begin", "locked", "rollback"}
          /\ pc[p] = "rollback" => res[p].kind = "AlreadySubmitted"

\* C9 (amended): such a submit never passes the checks, so it is never
\* awarded and adds no Submission: it is answered AlreadySubmitted, or
\* TaskClosed or Expired when the task has closed or expired since (or it
\* fails on a storage error).
C9_ResubmitNeverAwarded ==
    /\ \A p \in Procs :
          resub[p] =>
            /\ pc[p] \in {"begin", "locked", "rollback"}
            /\ pc[p] = "rollback" =>
                  res[p].kind \in {"AlreadySubmitted", "TaskClosed", "Expired"}
    /\ \A pair \in rejectedAS : RowsOf(pair[1], pair[2]) = 1

\* after AlreadySubmitted the window of the task has passed and the next
\* submit of the user is answered Expired
C9_Witness ==
    \E p \in Procs :
        /\ resub[p] /\ pc[p] = "rollback" /\ res[p].kind = "Expired"
        /\ <<req[p].task_id, req[p].user>> \in rejectedAS

\* C10: a submit rejected by one of the six eligibility checks has written
\* nothing and its end leaves tasks, submissions and points as they are;
\* no Submission of a creator to their own task exists.
C10_RejectionChangesNothing ==
    [][/\ \A p \in Procs :
            (pc[p] = "rollback" /\ res[p].kind \in Eligibility) =>
              /\ tx[p] = NoTx
              /\ pc'[p] = "idle" => db' = db
       /\ \A r \in BagToSet(submissions) :
            tasks[r.task_id].creator_id # r.user_id]_vars

\* a creator is being turned away from their own task
C10_Witness ==
    \E p \in Procs :
        /\ pc[p] = "rollback" /\ res[p].kind = "SelfSubmission"
        /\ tasks[req[p].task_id].creator_id = req[p].user
        /\ SubsOf(submissions, req[p].task_id, req[p].user) = {}

\* awarded_points of the rows in S, counted with multiplicity
RECURSIVE SumAwarded(_, _)
SumAwarded(B, S) ==
    IF S = {} THEN 0
    ELSE LET r == CHOOSE x \in S : TRUE
         IN CopiesIn(r, B) * r.awarded_points + SumAwarded(B, S \ {r})

\* points awarded on task t, to user u, in the committed table
AwardedOn(t) ==
    SumAwarded(submissions, {r \in BagToSet(submissions) : r.task_id = t})
AwardedTo(u) ==
    SumAwarded(submissions, {r \in BagToSet(submissions) : r.user_id = u})

\* every debit has its Submission and every Submission its credit
Balanced ==
    /\ \A t \in TaskIds :
          tasks[t].escrow_balance + AwardedOn(t) = InitialEscrow(t)
    /\ \A u \in Users : points[u] = AwardedTo(u)

\* the end of p's transaction made exactly its one Submission, the debit
\* and the credit of that Submission's points visible, together
Settled(p) ==
    LET t == req[p].task_id
        u == req[p].user
    IN /\ Len(tx[p].subs) = 1
       /\ submissions' = submissions (+) SetToBag({tx[p].subs[1]})
       /\ tasks'[t].escrow_balance =
             tasks[t].escrow_balance - tx[p].subs[1].awarded_points
       /\ points' = [points EXCEPT ![u] = @ + tx[p].subs[1].awarded_points]
       /\ \A o \in TaskIds \ {t} : tasks'[o] = tasks[o]

\* C11: a unit of work ends with all of its writes or none: the step that
\* ends it -- commit, rejection or storage error at any statement -- either
\* leaves the committed tables as they are or adds the Submission together
\* with its debit and its credit, so every committed state another submit
\* or a later one can read is balanced (no debit without its Submission
\* and credit, nor any other part alone).
C11_FailureRollsBackEverything ==
    [][/\ \A p \in Procs :
            (pc[p] \in InTxn /\ pc'[p] = "idle") => (db' = db \/ Settled(p))
       /\ Balanced']_vars

\* a storage error has ended a transaction that had written, nothing of it
\* is in the tables and no transaction is open
C11_Witness ==
    /\ aborted
    /\ \A p \in Procs : pc[p] = "idle"
    /\ submissions = EmptyBag
    /\ tasks = InitTasks(MaxEscrow)
    /\ points = [u \in Users |-> 0]

\* p is between its SELECT ... FOR UPDATE of the row of task t and its
\* COMMIT or ROLLBACK
InUnit(p, t) ==
    /\ req[p].task_id = t
    /\ task[p] # NoRow
    /\ pc[p] \in {"locked", "insufficient", "debit", "insert", "credit",
                  "count", "insert_wrong", "commit", "rollback"}

\* every other submit in flight is for another task and by another user
Unrelated(p) ==
    \A q \in Procs \ {p} :
        pc[q] # "idle" =>
            req[q].task_id # req[p].task_id /\ req[q].user # req[p].user

\* C12: at any time at most one submit is between taking the lock of a
\* task row and its commit or rollback, and the row it read there is still
\* the committed row (nobody wrote the task in between: submits to one
\* task are strictly ordered); a submit that shares neither task nor user
\* with the other submits in flight can always take its next step.
C12_MutualExclusionPerTask ==
    /\ \A t \in TaskIds :
          /\ Cardinality({p \in Procs : InUnit(p, t)}) <= 1
          /\ \A p \in Procs : InUnit(p, t) => task[p] = tasks[t]
    /\ \A p \in Procs :
          Unrelated(p) =>
            /\ pc[p] = "begin" => ENABLED LockTask(p)
            /\ pc[p] = "credit" => ENABLED Credit(p)

\* a submit holds the row of a task with its writes uncommitted and a
\* second submit to that task waits for the row
C12_Witness ==
    \E p \in Procs, q \in Procs :
        /\ p # q
        /\ InUnit(p, req[p].task_id) /\ tx[p] # NoTx
        /\ pc[q] = "begin" /\ req[q].task_id = req[p].task_id
        /\ ~ENABLED LockTask(q)

\* submits of two users to two tasks are in their units of work together
ParallelUnits ==
    \E p \in Procs, q \in Procs :
        /\ req[p].task_id # req[q].task_id /\ req[p].user # req[q].user
        /\ InUnit(p, req[p].task_id) /\ tx[p] # NoTx
        /\ InUnit(q, req[q].task_id) /\ tx[q] # NoTx

\* s without the whitespace around it: from its first to its last
\* character that is no whitespace
Core(s) ==
    LET idx == {i \in 1..Len(s) : s[i] \notin Whitespace}
    IN IF idx = {} THEN <<>>
       ELSE SubSeq(s, CHOOSE i \in idx : \A j \in idx : i <= j,
                      CHOOSE i \in idx : \A j \in idx : i >= j)

\* the two cases of one letter
CasePairs == {{"A", "a"}, {"B", "b"}, {"C", "c"}}

EqualFolded(s, t) ==
    /\ Len(s) = Len(t)
    /\ \A i \in 1..Len(s) : s[i] = t[i] \/ {s[i], t[i]} \in CasePairs

\* what the validation has to answer
Matches(question_type, answer, correct_answer) ==
    IF question_type = "mcq"
    THEN Core(answer) = Core(correct_answer)
    ELSE EqualFolded(Core(answer), Core(correct_answer))

\* C13: for every question type, answer and correct_answer the validation
\* answers, and the branch the handler takes is the correct one exactly
\* when, for mcq, the two strings are equal once the whitespace around
\* them is removed (case matters), and for short, when they are equal
\* once it is removed and the case is folded; nothing else is normalized.
C13_ValidationIsTrimAndFold ==
    \A p \in Procs :
        LET m == Matches(task[p].question_type, req[p].answer,
                         task[p].correct_answer)
        IN /\ pc[p] = "debit" => m
           /\ pc[p] = "insert_wrong" => ~m
           /\ pc[p] = "locked" =>
                 Validate(task[p].question_type, req[p].answer,
                          task[p].correct_answer) = m

\* a short answer that differs from correct_answer in case and in the
\* whitespace around it has been taken as correct
C13_Witness ==
    \E p \in Procs :
        /\ pc[p] = "debit"
        /\ task[p].question_type = "short"
        /\ req[p].answer = <<"b", " ">>
        /\ task[p].correct_answer = <<"B">>

\* an mcq answer that differs from correct_answer in case only has been
\* taken as incorrect
ValidateCaseSensitive ==
    \E p \in Procs :
        /\ pc[p] = "insert_wrong"
        /\ task[p].question_type = "mcq"
        /\ req[p].answer = <<"b">>
        /\ task[p].correct_answer = <<"B">>

\* C14: a submit that passed the six checks with an incorrect answer goes
\* on to its insert, and the end of its unit of work either commits
\* exactly one new Submission (is_correct = false, awarded_points = 0) and
\* answers {is_correct: false, awarded_points: 0}, with every task and
\* every user's points unchanged, or, on a storage error, changes nothing.
C14_IncorrectAnswerOnlyRecords ==
    [][\A p \in Procs :
          LET t == req[p].task_id
              u == req[p].user
              wrong == ~Validate(task[p].question_type, req[p].answer,
                                 task[p].correct_answer)
          IN /\ (pc[p] = "locked" /\ wrong /\ pc'[p] \notin {"locked", "idle"}
                   /\ Precheck(task[p], u, now, SubsOf(submissions, t, u))
                         = "ok")
                => pc'[p] = "insert_wrong"
             /\ (pc[p] = "commit" /\ wrong /\ pc'[p] = "idle") =>
                  \/ db' = db
                  \/ /\ submissions' = submissions (+) SetToBag({
                            [task_id |-> t, user_id |-> u,
                             answer |-> req[p].answer, is_correct |-> FALSE,
                             awarded_points |-> 0]})
                     /\ res[p] = [kind |-> "success", is_correct |-> FALSE,
                                  awarded_points |-> 0]
                     /\ tasks' = tasks
                     /\ points' = points]_vars

\* an incorrect answer is committed as the only Submission, with the tasks
\* and the points as they were at the start
C14_Witness ==
    /\ \E r \in BagToSet(submissions) :
          /\ ~r.is_correct /\ r.awarded_points = 0
          /\ submissions = SetToBag({r})
    /\ tasks = InitTasks(MaxEscrow)
    /\ points = [u \in Users |-> 0]

\* the points the users start with
InitialPoints == [u \in Users |-> 0]

\* C15: in every state the points of each user are the user's initial
\* points plus the awarded_points of the user's committed Submissions, so
\* nothing but the credit of a committed correct submission changes them,
\* and the credits of concurrent correct submissions of one user to
\* different tasks are both in the sum.
C15_PointsAreSumOfAwards ==
    \A u \in Users : points[u] = InitialPoints[u] + AwardedTo(u)

\* one user has correct answers to two tasks in flight: the first has
\* credited the user and is about to commit, the second waits for the
\* user's row to credit it too
C15_Witness ==
    \E p \in Procs, q \in Procs :
        /\ req[p].user = req[q].user /\ req[p].task_id # req[q].task_id
        /\ pc[p] = "commit" /\ tx[p].credit > 0
        /\ pc[q] = "credit" /\ task[q].reward_per_completion > 0
        /\ ~ENABLED Credit(q)

\* both credits of such a user are committed
BothCredited ==
    \E u \in Users :
        /\ points[u] = 3
        /\ Cardinality({r \in BagToSet(submissions) :
                           r.user_id = u /\ r.is_correct}) = 2

\* C16: the row every accepted ingestion request creates has
\* reward_per_completion >= 0, max_acceptances >= 1, escrow_balance >= 0,
\* status open and no creator.
C16_IngestedTaskIsWellFormed ==
    [][Len(tasks') > Len(tasks) =>
          LET r == tasks'[Len(tasks')]
          IN /\ r.reward_per_completion >= 0
             /\ r.max_acceptances >= 1
             /\ r.escrow_balance >= 0
             /\ r.status = "open"
             /\ r.creator_id = Null]_vars

\* checks 2 to 6 in their order, each with the error kind of its failure,
\* on the committed row of task t for user u at the given time
Preconditions(t, u, time) ==
    << <<tasks[t].status = "open", "TaskClosed">>,
       <<tasks[t].starts_at = Null \/ time >= tasks[t].starts_at,
         "NotStarted">>,
       <<tasks[t].ends_at = Null \/ time <= tasks[t].ends_at, "Expired">>,
       <<tasks[t].creator_id # u, "SelfSubmission">>,
       <<RowsOf(t, u) = 0, "AlreadySubmitted">> >>

\* the error kind of the first check of the list that fails, "ok" if none
FirstViolated(checks) ==
    LET failed == {i \in 1..Len(checks) : ~checks[i][1]}
    IN IF failed = {} THEN "ok"
       ELSE checks[CHOOSE i \in failed : \A j \in failed : i <= j][2]

\* C17: a submit is rejected exactly when one of the checks existence,
\* open status, start time, end time, self-submission, duplicate fails,
\* and then with the error kind of the first that fails in this order;
\* the time checks are inclusive (time >= starts_at, time <= ends_at).
C17_FirstViolatedCheckDecides ==
    [][\A p \in Procs :
          LET t == req[p].task_id
              u == req[p].user
          IN /\ (pc[p] = "begin" /\ pc'[p] \notin {"begin", "idle"}) =>
                  IF t \in TaskIds
                  THEN pc'[p] = "locked"
                  ELSE pc'[p] = "rollback" /\ res'[p].kind = "NotFound"
             /\ (pc[p] = "locked" /\ pc'[p] \notin {"locked", "idle"}) =>
                  LET k == FirstViolated(Preconditions(t, u, now))
                  IN IF k = "ok"
                     THEN pc'[p] # "rollback"
                     ELSE pc'[p] = "rollback" /\ res'[p].kind = k]_vars

\* the creator of an open task submits after its ends_at and is answered
\* Expired
C17_Witness ==
    \E p \in Procs :
        LET t == req[p].task_id IN
        /\ pc[p] = "rollback" /\ res[p].kind = "Expired"
        /\ tasks[t].status = "open"
        /\ tasks[t].creator_id = req[p].user
        /\ tasks[t].ends_at # Null /\ tasks[t].ends_at < now

\* a user with a Submission for a task that has closed is answered
\* TaskClosed
ClosedBeforeDuplicate ==
    \E p \in Procs :
        /\ pc[p] = "rollback" /\ res[p].kind = "TaskClosed"
        /\ RowsOf(req[p].task_id, req[p].user) = 1

\* a submit at exactly starts_at and ends_at has passed the checks
AtTheBounds ==
    \E p \in Procs :
        /\ pc[p] \in {"debit", "insert_wrong"}
        /\ task[p].starts_at = now /\ task[p].ends_at = now

\* C18: a handler invocation that is not in a unit of work holds no row
\* lock and has no uncommitted write, and under fair scheduling every
\* unit of work that has begun ends (commit, rollback after a rejection or
\* rollback after a storage error) and its connection is idle again: no
\* submits wait for each other for ever.
C18_EveryUnitOfWorkEnds ==
    /\ [](\A p \in Procs :
            pc[p] = "idle" =>
              /\ \A t \in 1..MaxTaskId : taskLock[t] # p
              /\ \A u \in Users : userLock[u] # p
              /\ tx[p] = NoTx)
    /\ \A p \in Procs : (pc[p] # "idle") ~> (pc[p] = "idle")

\* two submits to different tasks for the same user hold their task rows;
\* one has credited the user, the other waits for the user's row
C18_Witness ==
    \E p \in Procs, q \in Procs :
        /\ pc[p] = "credit" /\ pc[q] \in {"count", "commit"}
        /\ req[p].task_id # req[q].task_id
        /\ taskLock[req[p].task_id] = p /\ taskLock[req[q].task_id] = q
        /\ userLock[req[p].user] = q

\* C19: while the committed status of a task is closed, no step changes
\* its row (escrow_balance included) or adds a Submission for it, and a
\* submit that has read its row gets no further than the status check:
\* it is rejected as TaskClosed, so nobody is credited on its behalf.
C19_ClosedTaskIsFrozen ==
    [][\A t \in TaskIds :
          tasks[t].status = "closed" =>
            /\ tasks'[t] = tasks[t]
            /\ \A r \in BagToSet(submissions') :
                  r.task_id = t =>
                      CopiesIn(r, submissions') = CopiesIn(r, submissions)
            /\ \A p \in Procs :
                  InUnit(p, t) =>
                    /\ pc[p] \in {"locked", "rollback"}
                    /\ tx[p] = NoTx
                    /\ pc[p] = "rollback" => res[p].kind = "TaskClosed"]_vars

\* a correct answer by a user without a Submission for a task that closed
\* at max_acceptances is being turned away as TaskClosed
C19_Witness ==
    \E p \in Procs :
        LET t == req[p].task_id IN
        /\ pc[p] = "rollback" /\ res[p].kind = "TaskClosed"
        /\ Count(t) >= 1
        /\ RowsOf(t, req[p].user) = 0
        /\ tasks[t].creator_id # req[p].user
        /\ Validate(tasks[t].question_type, req[p].answer,
                    tasks[t].correct_answer)

\* the ingested tasks that promise a reward
OfficialRewarding ==
    {t \in TaskIds :
        tasks[t].creator_id = Null /\ tasks[t].reward_per_completion > 0}

\* p has read the row of t and its answer is the correct one
CorrectFor(p, t) ==
    /\ InUnit(p, t)
    /\ Validate(tasks[t].question_type, req[p].answer,
                tasks[t].correct_answer)

\* C20 (as claimed): every correct submission to an ingested task with
\* reward_per_completion > 0 is rejected with InsufficientEscrow.
C20_EveryCorrectSubmitInsufficient ==
    \A t \in OfficialRewarding : \A p \in Procs :
        (CorrectFor(p, t) /\ pc[p] = "rollback")
        => res[p].kind = "InsufficientEscrow"

\* C20 (amended): an ingested task with reward_per_completion > 0 keeps
\* escrow_balance 0 and never has a correct Submission or awarded points;
\* a correct submission to it never reaches the debit, and when it passes
\* the six preconditions it is rejected with InsufficientEscrow
\* (otherwise with the error kind of the precondition it fails).
C20_OfficialTaskNeverAwards ==
    \A t \in OfficialRewarding :
        /\ tasks[t].escrow_balance = 0
        /\ Count(t) = 0
        /\ AwardedOn(t) = 0
        /\ \A p \in Procs :
              CorrectFor(p, t) =>
                /\ pc[p] \in {"locked", "insufficient", "rollback"}
                /\ tx[p].debit = 0 /\ tx[p].credit = 0 /\ tx[p].subs = <<>>
                /\ pc[p] = "rollback" =>
                      res[p].kind =
                        IF FirstViolated(Preconditions(t, req[p].user, now))
                              = "ok"
                        THEN "InsufficientEscrow"
                        ELSE FirstViolated(Preconditions(t, req[p].user, now))

\* a correct answer to an ingested task with a reward is being rejected
\* with InsufficientEscrow
C20_Witness ==
    \E t \in OfficialRewarding : \E p \in Procs :
        /\ CorrectFor(p, t)
        /\ pc[p] = "rollback" /\ res[p].kind = "InsufficientEscrow"

====
